---- MODULE Spec2Model ----
(***************************************************************************)
(* Model of goatools/wr_tbl.py: the table writers prt_txt, prt_tsv,        *)
(* wr_tsv, wr_xlsx and their helpers.  Every writer is a synchronous,      *)
(* self-contained call, so a behaviour is: the idle state, then one call   *)
(* with its inputs drawn from small sets, whose effects (what reached the  *)
(* sink, sys.stdout, the file handle, the workbook; what was returned or   *)
(* raised) are the state after the call.                                   *)
(***************************************************************************)
EXTENDS Integers, Sequences, FiniteSets, TLC

\* Longest list of namedtuples handed to a writer.
MaxRecs == 2
\* Longest format string (in pieces: a literal or a {field} token) handed to
\* get_fmtflds.
MaxPieces == 3

VARIABLES
    call,     \* the call made: op and its arguments (pieces: what prtfmt was
              \* written from)
    status,   \* "idle" | "returned" | "raised"
    exc,      \* the exception that left the call ("none" if it returned)
    ret,      \* <<>> or <<items>>: the value prt_tsv returned
    fmtflds,  \* the list get_fmtflds returned
    sink,     \* the strings written to the caller's prt, in order
    stdout,   \* the writes to sys.stdout, in order: [via, text]
    file,     \* the file opened by wr_tsv: [opened, closed, lines]
    book      \* the xlsxwriter Workbook of wr_xlsx

vars == <<call, status, exc, ret, fmtflds, sink, stdout, file, book>>

(***************************************************************************)
(* Python values                                                           *)
(***************************************************************************)
PyInt(n) == [ty |-> "int", i |-> n, s |-> ""]
PyStr(t) == [ty |-> "str", i |-> 0, s |-> t]
PyNone == [ty |-> "NoneType", i |-> 0, s |-> ""]

\* str(v)
str(v) == IF v.ty = "int" THEN ToString(v.i) ELSE IF v.ty = "str" THEN v.s ELSE "None"

RECURSIVE Spaces(_)
Spaces(n) == IF n <= 0 THEN "" ELSE " " \o Spaces(n - 1)

\* format(v, ">w"): right-aligned in a field w wide.
rjust(t, w) == Spaces(w - Len(t)) \o t
\* format(v, "<w"): left-aligned in a field w wide.
ljust(t, w) == t \o Spaces(w - Len(t))

RECURSIVE join(_, _)
\* sep.join(strs)
join(sep, strs) ==
    IF strs = <<>> THEN ""
    ELSE IF Len(strs) = 1 THEN strs[1]
    ELSE strs[1] \o sep \o join(sep, Tail(strs))

Front(s) == SubSeq(s, 1, Len(s) - 1)
Last(s) == s[Len(s)]
MapStr(vals) == [k \in DOMAIN vals |-> str(vals[k])]

(***************************************************************************)
(* The data: namedtuples with the fields (name, score)                     *)
(***************************************************************************)
Names == {"a", "b"}
Scores == {1, 2}
\* One record has a number for a name: a field's values need not be of one type.
NTs == {[name |-> PyStr(n), score |-> PyInt(k)] : n \in Names, k \in Scores}
       \cup {[name |-> PyInt(7), score |-> PyInt(2)]}
\* nt._fields
_fields(nt) == <<"name", "score">>
DataLists == UNION {[1..n -> NTs] : n \in 0..MaxRecs}

\* No file opened; no Workbook made.
NoFile == [opened |-> FALSE, closed |-> FALSE, lines |-> <<>>]
NoBook == [created |-> FALSE, closed |-> FALSE, widths |-> <<>>, merges |-> <<>>,
           writes |-> <<>>]

NoKw == [k \in {} |-> k]
Has(kws, k) == k \in DOMAIN kws

(***************************************************************************)
(* The caller's callables.  A call yields [exc, val].                      *)
(*   prt_if "score_gt1": lambda nt: nt.score > 1                           *)
(*   prt_if "a_inv":     lambda nt: 1 // (nt.score - 1) > 0 and            *)
(*                                  nt.name == 'a'                         *)
(*   sort_by "score":    lambda nt: nt.score                               *)
(*   sort_by "name":     lambda nt: nt.name                                *)
(*   sort_by "inv":      lambda nt: 1 // (nt.score - 1)                    *)
(***************************************************************************)
StrRank(t) == IF t = "a" THEN 1 ELSE 2
\* a < b and a <= b, for two ints or two strs
PyLess(a, b) == IF a.ty = "int" THEN a.i < b.i ELSE StrRank(a.s) < StrRank(b.s)
PyLessEq(a, b) == a = b \/ PyLess(a, b)

CallPrtIf(f, nt) ==
    IF f = "score_gt1" THEN [exc |-> "none", val |-> nt.score.i > 1]
    ELSE IF nt.score.i = 1 THEN [exc |-> "ZeroDivisionError", val |-> FALSE]
    ELSE [exc |-> "none", val |-> nt.name = PyStr("a")]

CallSortBy(f, nt) ==
    IF f = "score" THEN [exc |-> "none", val |-> nt.score]
    ELSE IF f = "name" THEN [exc |-> "none", val |-> nt.name]
    ELSE IF nt.score.i = 1 THEN [exc |-> "ZeroDivisionError", val |-> PyNone]
    ELSE [exc |-> "none", val |-> PyInt(1)]

\* str.format of a one-slot format on a value:
\*   "{:d}"  an integer presentation type: ValueError on a str
\*   "{:>3}" right-aligned, width 3
FormatVal(fmt, v) ==
    IF fmt = "{:d}"
    THEN IF v.ty = "int" THEN [exc |-> "none", val |-> PyStr(ToString(v.i))]
         ELSE [exc |-> "ValueError", val |-> v]
    ELSE [exc |-> "none", val |-> PyStr(rjust(str(v), 3))]

(***************************************************************************)
(* sorted(data, key=f): the keys are computed first (any error leaves the  *)
(* call), then the list is sorted, stably; comparing an int key with a str *)
(* key is a TypeError.                                                     *)
(***************************************************************************)
RECURSIVE InsertByKey_Unstable(_, _, _)
InsertByKey_Unstable(srt, nt, f) ==
    IF srt = <<>> THEN <<nt>>
    ELSE IF PyLess(CallSortBy(f, Last(srt)).val, CallSortBy(f, nt).val) THEN Append(srt, nt)
    ELSE Append(InsertByKey_Unstable(Front(srt), nt, f), Last(srt))

RECURSIVE InsertByKey(_, _, _)
\* nt goes after every element whose key is not greater than its own.
InsertByKey(srt, nt, f) ==
    IF srt = <<>> THEN <<nt>>
    ELSE IF PyLessEq(CallSortBy(f, Last(srt)).val, CallSortBy(f, nt).val) THEN Append(srt, nt)
    ELSE Append(InsertByKey(Front(srt), nt, f), Last(srt))

RECURSIVE StableSort(_, _)
StableSort(s, f) ==
    IF s = <<>> THEN <<>> ELSE InsertByKey(StableSort(Front(s), f), Last(s), f)

sorted(data_nts, f) ==
    IF \E k \in DOMAIN data_nts : CallSortBy(f, data_nts[k]).exc # "none"
    THEN [exc |-> "ZeroDivisionError", val |-> <<>>]
    ELSE IF \E j, k \in DOMAIN data_nts :
               CallSortBy(f, data_nts[j]).val.ty # CallSortBy(f, data_nts[k]).val.ty
    THEN [exc |-> "TypeError", val |-> <<>>]
    ELSE [exc |-> "none", val |-> StableSort(data_nts, f)]

(***************************************************************************)
(* Helpers of the writers                                                  *)
(***************************************************************************)
\* _get_hdrs(flds_all, **kws)
_get_hdrs(flds_all, kws) ==
    IF Has(kws, "hdrs") THEN kws.hdrs
    ELSE IF Has(kws, "prt_flds") THEN kws.prt_flds
    ELSE flds_all

\* [getattr(nt, fld) for fld in prt_flds]
GetAttrs(nt, prt_flds) ==
    IF \E k \in DOMAIN prt_flds : prt_flds[k] \notin DOMAIN nt
    THEN [exc |-> "AttributeError", vals |-> <<>>]
    ELSE [exc |-> "none", vals |-> [k \in DOMAIN prt_flds |-> nt[prt_flds[k]]]]

RECURSIVE _fmt_fields(_, _, _)
\* _fmt_fields(fld_vals, fld2fmt), the pairs given as two lists.
_fmt_fields(flds, vals, fld2fmt) ==
    IF flds = <<>> THEN [exc |-> "none", vals |-> <<>>]
    ELSE LET v == IF flds[1] \in DOMAIN fld2fmt
                  THEN FormatVal(fld2fmt[flds[1]], vals[1])
                  ELSE [exc |-> "none", val |-> vals[1]]
         IN  IF v.exc # "none" THEN [exc |-> v.exc, vals |-> <<>>]
             ELSE LET rest == _fmt_fields(Tail(flds), Tail(vals), fld2fmt)
                  IN  IF rest.exc # "none" THEN rest
                      ELSE [exc |-> "none", vals |-> <<v.val>> \o rest.vals]

(***************************************************************************)
(* prt_tsv                                                                 *)
(***************************************************************************)
\* The body of prt_tsv's loop for one row, on acc = [out, exc, items].
TsvRow_CountAll(acc, nt, kws, prt_flds, sep) ==
    LET sel == IF Has(kws, "prt_if") THEN CallPrtIf(kws.prt_if, nt)
               ELSE [exc |-> "none", val |-> TRUE]
        got == GetAttrs(nt, prt_flds)
        row == IF Has(kws, "fld2fmt") THEN _fmt_fields(prt_flds, got.vals, kws.fld2fmt)
               ELSE got
    IN  IF sel.exc # "none" THEN [acc EXCEPT !.exc = sel.exc]
        ELSE IF ~sel.val THEN [acc EXCEPT !.items = @ + 1]
        ELSE IF got.exc # "none" THEN [acc EXCEPT !.exc = got.exc]
        ELSE IF row.exc # "none" THEN [acc EXCEPT !.exc = row.exc]
        ELSE [acc EXCEPT !.out = Append(@, join(sep, MapStr(row.vals)) \o "\n"),
                         !.items = @ + 1]

TsvRow_Swallow(acc, nt, kws, prt_flds, sep) ==
    LET sel == IF Has(kws, "prt_if") THEN CallPrtIf(kws.prt_if, nt)
               ELSE [exc |-> "none", val |-> TRUE]
        got == GetAttrs(nt, prt_flds)
        row == IF Has(kws, "fld2fmt") THEN _fmt_fields(prt_flds, got.vals, kws.fld2fmt)
               ELSE got
    IN  IF sel.exc # "none" THEN acc
        ELSE IF ~sel.val THEN acc
        ELSE IF got.exc # "none" THEN acc
        ELSE IF row.exc # "none" THEN acc
        ELSE [acc EXCEPT !.out = Append(@, join(sep, MapStr(row.vals)) \o "\n"),
                         !.items = @ + 1]

TsvRow(acc, nt, kws, prt_flds, sep) ==
    LET sel == IF Has(kws, "prt_if") THEN CallPrtIf(kws.prt_if, nt)
               ELSE [exc |-> "none", val |-> TRUE]
        got == GetAttrs(nt, prt_flds)
        row == IF Has(kws, "fld2fmt") THEN _fmt_fields(prt_flds, got.vals, kws.fld2fmt)
               ELSE got
    IN  IF sel.exc # "none" THEN [acc EXCEPT !.exc = sel.exc]
        ELSE IF ~sel.val THEN acc
        ELSE IF got.exc # "none" THEN [acc EXCEPT !.exc = got.exc]
        ELSE IF row.exc # "none" THEN [acc EXCEPT !.exc = row.exc]
        ELSE [acc EXCEPT !.out = Append(@, join(sep, MapStr(row.vals)) \o "\n"),
                         !.items = @ + 1]

RECURSIVE TsvRows(_, _, _, _, _)
\* for nt_data_row in data_nts: ... ; the loop ends at the first error.
TsvRows(acc, nts, kws, prt_flds, sep) ==
    IF nts = <<>> \/ acc.exc # "none" THEN acc
    ELSE TsvRows(TsvRow(acc, nts[1], kws, prt_flds, sep), Tail(nts), kws, prt_flds, sep)

\* prt_tsv(prt, data_nts, **kws) on a non-empty list: [out, exc, items], out
\* the strings written to prt.
prt_tsv(data_nts, kws) ==
    LET sep == IF Has(kws, "sep") THEN kws.sep ELSE "\t"
        flds_all == _fields(data_nts[1])
        hdrs == _get_hdrs(flds_all, kws)
        srt == IF Has(kws, "sort_by") THEN sorted(data_nts, kws.sort_by)
               ELSE [exc |-> "none", val |-> data_nts]
    IN  IF srt.exc # "none" THEN [out |-> <<>>, exc |-> srt.exc, items |-> 0]
        ELSE LET prt_flds == IF Has(kws, "prt_flds") THEN kws.prt_flds
                             ELSE _fields(srt.val[1])
             IN  TsvRows([out |-> <<join(sep, hdrs) \o "\n">>, exc |-> "none", items |-> 0],
                         srt.val, kws, prt_flds, sep)

(***************************************************************************)
(* Format strings.  A format string is a list of atoms: "{", "}", ":", a   *)
(* whitespace character, or a run of other characters (a field name, a     *)
(* width, a literal).                                                      *)
(***************************************************************************)
IsSpace(a) == a \in {" ", "\n", "\t"}
Concat(atoms) == join("", atoms)
SetMax(S) == CHOOSE m \in S : \A k \in S : k <= m
SetMin(S) == CHOOSE m \in S : \A k \in S : m <= k

RECURSIVE RunEnd(_, _)
\* The last position of the run of non-whitespace that starts at p (p - 1 if
\* there is none).
RunEnd(s, p) == IF p <= Len(s) /\ ~IsSpace(s[p]) THEN RunEnd(s, p + 1) ELSE p - 1

RECURSIVE findall(_, _)
\* re.findall(r'{(\S+)}', s), scanning from position p: \S+ is greedy, so the
\* group runs to the last "}" of the run of non-whitespace after the "{".
findall(s, p) ==
    IF p > Len(s) THEN <<>>
    ELSE IF s[p] # "{" THEN findall(s, p + 1)
    ELSE LET closes == {k \in (p + 2)..RunEnd(s, p + 1) : s[k] = "}"}
         IN  IF closes = {} THEN findall(s, p + 1)
             ELSE <<SubSeq(s, p + 1, SetMax(closes) - 1)>> \o findall(s, SetMax(closes) + 1)

\* f.split(':')[0]
BeforeColon(f) ==
    IF \E k \in DOMAIN f : f[k] = ":"
    THEN SubSeq(f, 1, SetMin({k \in DOMAIN f : f[k] = ":"}) - 1)
    ELSE f
\* what follows the first ':' of a replacement field (nothing if there is none)
AfterColon(f) ==
    IF \E k \in DOMAIN f : f[k] = ":"
    THEN SubSeq(f, SetMin({k \in DOMAIN f : f[k] = ":"}) + 1, Len(f))
    ELSE <<>>

\* get_fmtflds(prtfmt): the list of field names, as strings.
get_fmtflds(prtfmt) ==
    LET found == findall(prtfmt, 1)
    IN  [k \in DOMAIN found |-> Concat(BeforeColon(found[k]))]

\* _chk_flds_fmt(nt_fields, prtfmt): the exception raised, or "none".
_chk_flds_fmt(nt_fields, prtfmt) ==
    LET flds == get_fmtflds(prtfmt)
        missing_data == {flds[k] : k \in DOMAIN flds} \ {nt_fields[k] : k \in DOMAIN nt_fields}
    IN  IF missing_data = {} THEN "none" ELSE "Exception"

\* format(v, spec) for the specs "", "3" and " >3".
FormatSpec(v, spec) ==
    IF spec = "" THEN str(v)
    ELSE IF spec = "3" THEN (IF v.ty = "int" THEN rjust(str(v), 3) ELSE ljust(str(v), 3))
    ELSE rjust(str(v), 3)

RECURSIVE FormatText(_, _)
\* prtfmt.format(**nt._asdict()): [exc, val].  A replacement field runs from
\* "{" to the next "}"; its name is looked up in the dict.
FormatText(text, nt) ==
    IF text = <<>> THEN [exc |-> "none", val |-> ""]
    ELSE IF text[1] = "}" THEN [exc |-> "ValueError", val |-> ""]
    ELSE IF text[1] # "{"
    THEN LET rest == FormatText(Tail(text), nt)
         IN  IF rest.exc # "none" THEN rest ELSE [rest EXCEPT !.val = text[1] \o @]
    ELSE IF ~\E k \in DOMAIN text : text[k] = "}" THEN [exc |-> "ValueError", val |-> ""]
    ELSE LET close == SetMin({k \in DOMAIN text : text[k] = "}"})
             fld == SubSeq(text, 2, close - 1)
             name == Concat(BeforeColon(fld))
         IN  IF name \notin DOMAIN nt THEN [exc |-> "KeyError", val |-> ""]
             ELSE LET rest == FormatText(SubSeq(text, close + 1, Len(text)), nt)
                  IN  IF rest.exc # "none" THEN rest
                      ELSE [rest EXCEPT !.val = FormatSpec(nt[name], Concat(AfterColon(fld))) \o @]

\* The pieces a format string is written from: a literal atom, or a token
\* {name} or {name:spec}.
Lit(a) == [tok |-> FALSE, name |-> a, spec |-> <<>>]
Tok(n, spec) == [tok |-> TRUE, name |-> n, spec |-> spec]
RenderPiece(pc) ==
    IF ~pc.tok THEN <<pc.name>>
    ELSE IF pc.spec = <<>> THEN <<"{", pc.name, "}">>
    ELSE <<"{", pc.name, ":">> \o pc.spec \o <<"}">>
RECURSIVE Render(_)
Render(pieces) == IF pieces = <<>> THEN <<>> ELSE RenderPiece(pieces[1]) \o Render(Tail(pieces))

(***************************************************************************)
(* prt_txt                                                                 *)
(***************************************************************************)
\* The body of prt_txt's loop for one row, on acc = [out, exc].
TxtRow(acc, nt, prtfmt, kws) ==
    LET sel == IF Has(kws, "prt_if") THEN CallPrtIf(kws.prt_if, nt)
               ELSE [exc |-> "none", val |-> TRUE]
        txt == FormatText(prtfmt, nt)
    IN  IF sel.exc # "none" THEN [acc EXCEPT !.exc = sel.exc]
        ELSE IF ~sel.val THEN acc
        ELSE IF txt.exc # "none" THEN [acc EXCEPT !.exc = txt.exc]
        ELSE [acc EXCEPT !.out = Append(@, txt.val)]

RECURSIVE TxtRows(_, _, _, _)
TxtRows(acc, nts, prtfmt, kws) ==
    IF nts = <<>> \/ acc.exc # "none" THEN acc
    ELSE TxtRows(TxtRow(acc, nts[1], prtfmt, kws), Tail(nts), prtfmt, kws)

Notice0(what) == [via |-> "sys.stdout.write", text |-> "      0 items. NOT WRITING " \o what \o "\n"]
NoticeWrote(n, fout) ==
    [via |-> "sys.stdout.write",
     text |-> "  " \o rjust(ToString(n), 5) \o " items WROTE: " \o str(fout) \o "\n"]

\* prt_txt with the zero-items notice written to prt instead of sys.stdout.
prt_txt_NoticeToSink(data_nts, prtfmt, nt_fields, kws) ==
    IF data_nts # <<>>
    THEN LET chk == IF nt_fields # <<>> THEN _chk_flds_fmt(nt_fields[1], prtfmt) ELSE "none"
             srt == IF Has(kws, "sort_by") THEN sorted(data_nts, kws.sort_by)
                    ELSE [exc |-> "none", val |-> data_nts]
         IN  IF chk # "none" THEN [out |-> <<>>, exc |-> chk, stdout |-> <<>>]
             ELSE IF srt.exc # "none" THEN [out |-> <<>>, exc |-> srt.exc, stdout |-> <<>>]
             ELSE TxtRows([out |-> <<>>, exc |-> "none", stdout |-> <<>>], srt.val, prtfmt, kws)
    ELSE [out |-> <<Notice0("w/format_string(" \o Concat(prtfmt) \o ")").text>>,
          exc |-> "none", stdout |-> <<>>]

\* prt_txt(prt, data_nts, prtfmt, nt_fields, **kws): [out, exc, stdout].
\* nt_fields is <<>> for None and <<fields>> otherwise.
prt_txt(data_nts, prtfmt, nt_fields, kws) ==
    IF data_nts # <<>>
    THEN LET chk == IF nt_fields # <<>> THEN _chk_flds_fmt(nt_fields[1], prtfmt) ELSE "none"
             srt == IF Has(kws, "sort_by") THEN sorted(data_nts, kws.sort_by)
                    ELSE [exc |-> "none", val |-> data_nts]
         IN  IF chk # "none" THEN [out |-> <<>>, exc |-> chk, stdout |-> <<>>]
             ELSE IF srt.exc # "none" THEN [out |-> <<>>, exc |-> srt.exc, stdout |-> <<>>]
             ELSE TxtRows([out |-> <<>>, exc |-> "none", stdout |-> <<>>], srt.val, prtfmt, kws)
    ELSE [out |-> <<>>, exc |-> "none",
          stdout |-> <<Notice0("w/format_string(" \o Concat(prtfmt) \o ")")>>]

(***************************************************************************)
(* wr_tsv                                                                  *)
(***************************************************************************)
ViaPrt(lines) == [k \in DOMAIN lines |-> [via |-> "prt.write", text |-> lines[k]]]

\* wr_tsv without the notice after the file is written.
wr_tsv_NoNotice(fout_tsv, tsv_data, kws) ==
    IF tsv_data # <<>>
    THEN LET r == prt_tsv(tsv_data, kws)
         IN  IF fout_tsv = PyNone
             THEN [stdout |-> ViaPrt(r.out), file |-> NoFile, exc |-> r.exc]
             ELSE [stdout |-> <<>>, exc |-> r.exc,
                   file |-> [opened |-> TRUE, closed |-> r.exc = "none", lines |-> r.out]]
    ELSE [stdout |-> <<Notice0(str(fout_tsv))>>, file |-> NoFile, exc |-> "none"]

\* wr_tsv(fout_tsv, tsv_data, **kws): [stdout, file, exc].
wr_tsv(fout_tsv, tsv_data, kws) ==
    IF tsv_data # <<>>
    THEN LET r == prt_tsv(tsv_data, kws)
         IN  IF fout_tsv = PyNone
             THEN [stdout |-> ViaPrt(r.out), file |-> NoFile, exc |-> r.exc]
             ELSE IF r.exc # "none"
             THEN [stdout |-> <<>>, exc |-> r.exc,
                   file |-> [opened |-> TRUE, closed |-> FALSE, lines |-> r.out]]
             ELSE [stdout |-> <<NoticeWrote(r.items, fout_tsv)>>, exc |-> "none",
                   file |-> [opened |-> TRUE, closed |-> TRUE, lines |-> r.out]]
    ELSE [stdout |-> <<Notice0(str(fout_tsv))>>, file |-> NoFile, exc |-> "none"]

(***************************************************************************)
(* wr_xlsx.  The Workbook is [created, closed, widths, merges, writes]:    *)
(* the set_column, merge_range and write calls made on its worksheet, in   *)
(* order, rows and columns counted from 0 as xlsxwriter counts them.       *)
(***************************************************************************)
RECURSIVE _set_xlsx_colwidths(_, _, _)
\* _set_xlsx_colwidths(worksheet, fld2col_widths, fldnames), from col_idx on:
\* the set_column calls.
_set_xlsx_colwidths(fld2col_widths, fldnames, col_idx) ==
    IF col_idx >= Len(fldnames) THEN <<>>
    ELSE (IF fldnames[col_idx + 1] \in DOMAIN fld2col_widths
          THEN <<[col |-> col_idx, width |-> fld2col_widths[fldnames[col_idx + 1]]]>>
          ELSE <<>>)
         \o _set_xlsx_colwidths(fld2col_widths, fldnames, col_idx + 1)

RECURSIVE XlsxCells(_, _, _, _, _)
\* for col_idx, fld in enumerate(prt_flds): ..., from col_idx on, on
\* acc = [writes, exc, row_idx].
XlsxCells(acc, nt, prt_flds, col_idx, kws) ==
    IF col_idx >= Len(prt_flds) THEN acc
    ELSE LET fld == prt_flds[col_idx + 1]
         IN  IF fld \notin DOMAIN nt THEN [acc EXCEPT !.exc = "AttributeError"]
             ELSE LET val == IF Has(kws, "fld2fmt") /\ fld \in DOMAIN kws.fld2fmt
                             THEN FormatVal(kws.fld2fmt[fld], nt[fld])
                             ELSE [exc |-> "none", val |-> nt[fld]]
                  IN  IF val.exc # "none" THEN [acc EXCEPT !.exc = val.exc]
                      ELSE XlsxCells([acc EXCEPT !.writes = Append(@,
                                         [row |-> acc.row_idx, col |-> col_idx,
                                          val |-> val.val, fmt |-> "fmt_txt"])],
                                     nt, prt_flds, col_idx + 1, kws)

\* The body of _wrxlsxdata's loop for one row.
XlsxRow_Gap(acc, nt, prt_flds, kws) ==
    LET sel == IF Has(kws, "prt_if") THEN CallPrtIf(kws.prt_if, nt)
               ELSE [exc |-> "none", val |-> TRUE]
        cells == XlsxCells(acc, nt, prt_flds, 0, kws)
    IN  IF sel.exc # "none" THEN [acc EXCEPT !.exc = sel.exc]
        ELSE IF ~sel.val THEN [acc EXCEPT !.row_idx = @ + 1]
        ELSE IF cells.exc # "none" THEN cells
        ELSE [cells EXCEPT !.row_idx = @ + 1]

XlsxRow(acc, nt, prt_flds, kws) ==
    LET sel == IF Has(kws, "prt_if") THEN CallPrtIf(kws.prt_if, nt)
               ELSE [exc |-> "none", val |-> TRUE]
        cells == XlsxCells(acc, nt, prt_flds, 0, kws)
    IN  IF sel.exc # "none" THEN [acc EXCEPT !.exc = sel.exc]
        ELSE IF ~sel.val THEN acc
        ELSE IF cells.exc # "none" THEN cells
        ELSE [cells EXCEPT !.row_idx = @ + 1]

RECURSIVE XlsxRows(_, _, _, _)
XlsxRows(acc, nts, prt_flds, kws) ==
    IF nts = <<>> \/ acc.exc # "none" THEN acc
    ELSE XlsxRows(XlsxRow(acc, nts[1], prt_flds, kws), Tail(nts), prt_flds, kws)

\* _wrxlsxdata(xlsx_data, row_idx, worksheet, fmt_txt, **kws):
\* [writes, exc, row_idx], row_idx the value returned.
_wrxlsxdata(xlsx_data, row_idx, kws) ==
    LET prt_flds == IF Has(kws, "prt_flds") THEN kws.prt_flds ELSE _fields(xlsx_data[1])
        srt == IF Has(kws, "sort_by") THEN sorted(xlsx_data, kws.sort_by)
               ELSE [exc |-> "none", val |-> xlsx_data]
    IN  IF srt.exc # "none" THEN [writes |-> <<>>, exc |-> srt.exc, row_idx |-> row_idx]
        ELSE XlsxRows([writes |-> <<>>, exc |-> "none", row_idx |-> row_idx],
                      srt.val, prt_flds, kws)

\* for col_idx, hdr in enumerate(hdrs): worksheet.write(row_idx, col_idx, hdr, fmt_hdr)
HdrWrites(hdrs, row_idx) ==
    [k \in DOMAIN hdrs |->
        [row |-> row_idx, col |-> k - 1, val |-> PyStr(hdrs[k]), fmt |-> "fmt_hdr"]]

\* wr_xlsx(fout_xlsx, xlsx_data, **kws): [stdout, book, exc].
wr_xlsx(fout_xlsx, xlsx_data, kws) ==
    IF xlsx_data # <<>>
    THEN LET flds_all == _fields(xlsx_data[1])
             widths == IF Has(kws, "fld2col_widths")
                       THEN _set_xlsx_colwidths(kws.fld2col_widths, flds_all, 0)
                       ELSE <<>>
             hdrs == _get_hdrs(flds_all, kws)
             merges == IF Has(kws, "title")
                       THEN <<[row |-> 0, first_col |-> 0, last_col |-> Len(hdrs) - 1,
                               val |-> kws.title]>>
                       ELSE <<>>
             row_hdr == IF Has(kws, "title") THEN 1 ELSE 0
             row_idx_d0 == row_hdr + 1
             d == _wrxlsxdata(xlsx_data, row_idx_d0, kws)
             bk == [created |-> TRUE, closed |-> d.exc = "none", widths |-> widths,
                    merges |-> merges, writes |-> HdrWrites(hdrs, row_hdr) \o d.writes]
         IN  IF d.exc # "none" THEN [stdout |-> <<>>, book |-> bk, exc |-> d.exc]
             ELSE [stdout |-> <<NoticeWrote(d.row_idx - row_idx_d0, fout_xlsx)>>,
                   book |-> bk, exc |-> "none"]
    ELSE [stdout |-> <<Notice0(str(fout_xlsx))>>, book |-> NoBook, exc |-> "none"]

(***************************************************************************)
(* The calls                                                               *)
(***************************************************************************)
NoCall == [op |-> "none", data |-> <<>>, kws |-> NoKw, fout |-> PyNone,
           pieces |-> <<>>, prtfmt |-> <<>>, nt_fields |-> <<>>]

PrtIfKws == {NoKw, [prt_if |-> "score_gt1"], [prt_if |-> "a_inv"]}
SortByKws == {NoKw, [sort_by |-> "score"], [sort_by |-> "name"], [sort_by |-> "inv"]}
PrtFldsKws == {NoKw, [prt_flds |-> <<"name">>], [prt_flds |-> <<"score", "name">>],
               [prt_flds |-> <<"depth">>]}
Fld2FmtKws == {NoKw, [fld2fmt |-> [score |-> "{:>3}", depth |-> "{:d}"]],
               [fld2fmt |-> [name |-> "{:d}"]]}
HdrsKws == {NoKw, [hdrs |-> <<"N", "S">>]}
SepKws == {NoKw, [sep |-> ","]}
TsvKws == {a @@ b @@ c @@ d @@ e @@ f : a \in PrtIfKws, b \in SortByKws, c \in PrtFldsKws,
           d \in Fld2FmtKws, e \in HdrsKws, f \in SepKws}

TitleKws == {NoKw, [title |-> "T"]}
WidthsKws == {NoKw, [fld2col_widths |-> [score |-> 20]],
              [fld2col_widths |-> [name |-> 10, score |-> 20, depth |-> 5]]}
XlsxKws == {a @@ b @@ c @@ d @@ e @@ f @@ g : a \in PrtIfKws, b \in SortByKws,
            c \in PrtFldsKws, d \in Fld2FmtKws, e \in HdrsKws, f \in TitleKws,
            g \in WidthsKws}
TxtKws == {a @@ b : a \in PrtIfKws, b \in SortByKws}
NtFieldsArgs == {<<>>, <<<<"name">>>>, <<<<"name", "score">>>>}
\* "{name} {score}\n", "{name:3}{score}\n", "{score}-{name}\n", "{name}\n",
\* "{depth} {name}\n", "{score: >3}\n"
TxtFormats ==
    {<<Tok("name", <<>>), Lit(" "), Tok("score", <<>>), Lit("\n")>>,
     <<Tok("name", <<"3">>), Tok("score", <<>>), Lit("\n")>>,
     <<Tok("score", <<>>), Lit("-"), Tok("name", <<>>), Lit("\n")>>,
     <<Tok("name", <<>>), Lit("\n")>>,
     <<Tok("depth", <<>>), Lit(" "), Tok("name", <<>>), Lit("\n")>>,
     <<Tok("score", <<" ", ">3">>), Lit("\n")>>}
Pieces == {Lit(" "), Lit("-")}
          \cup {Tok(n, sp) : n \in {"name", "score"}, sp \in {<<>>, <<"3">>, <<" ", ">3">>}}
Formats == UNION {[1..n -> Pieces] : n \in 0..MaxPieces}

Init ==
    /\ call = NoCall
    /\ status = "idle"
    /\ exc = "none"
    /\ ret = <<>>
    /\ fmtflds = <<>>
    /\ sink = <<>>
    /\ stdout = <<>>
    /\ file = NoFile
    /\ book = NoBook

\* items = prt_tsv(prt, data_nts, **kws), prt a sink of the caller's.
CallPrtTsv ==
    /\ status = "idle"
    /\ \E data \in DataLists \ {<<>>}, kws \in TsvKws :
         LET r == prt_tsv(data, kws)
         IN  /\ call' = [NoCall EXCEPT !.op = "prt_tsv", !.data = data, !.kws = kws]
             /\ status' = IF r.exc = "none" THEN "returned" ELSE "raised"
             /\ exc' = r.exc
             /\ ret' = IF r.exc = "none" THEN <<r.items>> ELSE <<>>
             /\ sink' = r.out
             /\ UNCHANGED <<fmtflds, stdout, file, book>>

\* wr_tsv(fout_tsv, tsv_data, **kws)
CallWrTsv ==
    /\ status = "idle"
    /\ \E data \in DataLists, kws \in TsvKws, fout \in {PyNone, PyStr("out.tsv")} :
         LET r == wr_tsv(fout, data, kws)
         IN  /\ call' = [NoCall EXCEPT !.op = "wr_tsv", !.data = data, !.kws = kws,
                                       !.fout = fout]
             /\ status' = IF r.exc = "none" THEN "returned" ELSE "raised"
             /\ exc' = r.exc
             /\ stdout' = r.stdout
             /\ file' = r.file
             /\ UNCHANGED <<ret, fmtflds, sink, book>>

\* prt_txt(prt, data_nts, prtfmt, nt_fields, **kws)
CallPrtTxt ==
    /\ status = "idle"
    /\ \E data \in DataLists, pieces \in TxtFormats, nt_fields \in NtFieldsArgs,
          kws \in TxtKws :
         LET r == prt_txt(data, Render(pieces), nt_fields, kws)
         IN  /\ call' = [NoCall EXCEPT !.op = "prt_txt", !.data = data, !.kws = kws,
                                       !.pieces = pieces, !.prtfmt = Render(pieces),
                                       !.nt_fields = nt_fields]
             /\ status' = IF r.exc = "none" THEN "returned" ELSE "raised"
             /\ exc' = r.exc
             /\ sink' = r.out
             /\ stdout' = r.stdout
             /\ UNCHANGED <<ret, fmtflds, file, book>>

\* get_fmtflds(prtfmt)
CallGetFmtflds ==
    /\ status = "idle"
    /\ \E pieces \in Formats :
         /\ call' = [NoCall EXCEPT !.op = "get_fmtflds", !.pieces = pieces,
                                    !.prtfmt = Render(pieces)]
         /\ status' = "returned"
         /\ fmtflds' = get_fmtflds(Render(pieces))
         /\ UNCHANGED <<exc, ret, sink, stdout, file, book>>

\* wr_xlsx(fout_xlsx, xlsx_data, **kws)
CallWrXlsx ==
    /\ status = "idle"
    /\ \E data \in DataLists, kws \in XlsxKws :
         LET r == wr_xlsx(PyStr("out.xlsx"), data, kws)
         IN  /\ call' = [NoCall EXCEPT !.op = "wr_xlsx", !.data = data, !.kws = kws,
                                       !.fout = PyStr("out.xlsx")]
             /\ status' = IF r.exc = "none" THEN "returned" ELSE "raised"
             /\ exc' = r.exc
             /\ stdout' = r.stdout
             /\ book' = r.book
             /\ UNCHANGED <<ret, fmtflds, sink, file>>

Next == CallPrtTsv \/ CallWrTsv \/ CallPrtTxt \/ CallGetFmtflds \/ CallWrXlsx

Spec == Init /\ [][Next]_vars

(***************************************************************************)
(* What the claims speak of, stated from the call's arguments alone        *)
(***************************************************************************)
Renderers == {"prt_txt", "wr_tsv", "wr_xlsx"}

\* select holds of the record (always, when no select is given).
Selects(kws, nt) ==
    \/ ~Has(kws, "prt_if")
    \/ CallPrtIf(kws.prt_if, nt).exc = "none" /\ CallPrtIf(kws.prt_if, nt).val
SelectRaises(kws, nt) == Has(kws, "prt_if") /\ CallPrtIf(kws.prt_if, nt).exc # "none"
NumSelected(data, kws) == Cardinality({k \in DOMAIN data : Selects(kws, data[k])})

\* The order_by key of a record (the same for all, when no order_by is given).
KeyOf(kws, nt) == IF Has(kws, "sort_by") THEN CallSortBy(kws.sort_by, nt).val ELSE PyInt(0)
\* order_by raises on a record, or two keys cannot be compared.
SortRaises(data, kws) ==
    /\ Has(kws, "sort_by")
    /\ \/ \E k \in DOMAIN data : CallSortBy(kws.sort_by, data[k]).exc # "none"
       \/ \E j, k \in DOMAIN data : KeyOf(kws, data[j]).ty # KeyOf(kws, data[k]).ty
\* Record j comes before record k: a smaller key, or an equal key and an
\* earlier place in the input.
ComesBefore(data, kws, j, k) ==
    \/ PyLess(KeyOf(kws, data[j]), KeyOf(kws, data[k]))
    \/ KeyOf(kws, data[j]) = KeyOf(kws, data[k]) /\ j < k
\* The records at the places S of the input, in that order.
InOrder(data, kws, S) ==
    [r \in 1..Cardinality(S) |->
        data[CHOOSE k \in S : Cardinality({j \in S : ComesBefore(data, kws, j, k)}) = r - 1]]
AllInOrder(data, kws) == InOrder(data, kws, DOMAIN data)
SelectedInOrder(data, kws) ==
    InOrder(data, kws, {k \in DOMAIN data : Selects(kws, data[k])})

\* The columns printed, the value of one cell, and the lines of the TSV form.
ColumnsOf(kws) == IF Has(kws, "prt_flds") THEN kws.prt_flds ELSE <<"name", "score">>
HeadersOf(kws) == IF Has(kws, "hdrs") THEN kws.hdrs ELSE ColumnsOf(kws)
SepOf(kws) == IF Has(kws, "sep") THEN kws.sep ELSE "\t"
CellOf(kws, nt, fld) ==
    IF Has(kws, "fld2fmt") /\ fld \in DOMAIN kws.fld2fmt
    THEN FormatVal(kws.fld2fmt[fld], nt[fld]).val
    ELSE nt[fld]
CellRaises(kws, nt, fld) ==
    \/ fld \notin DOMAIN nt
    \/ Has(kws, "fld2fmt") /\ fld \in DOMAIN kws.fld2fmt
       /\ FormatVal(kws.fld2fmt[fld], nt[fld]).exc # "none"
TsvHeader(kws) == join(SepOf(kws), HeadersOf(kws)) \o "\n"
TsvLine(kws, nt) ==
    join(SepOf(kws), [c \in DOMAIN ColumnsOf(kws) |-> str(CellOf(kws, nt, ColumnsOf(kws)[c]))])
    \o "\n"
\* Writing the record's row fails: select raises, or select holds and a cell
\* cannot be fetched or formatted.
RowRaises(kws, nt) ==
    \/ SelectRaises(kws, nt)
    \/ Selects(kws, nt) /\ \E c \in DOMAIN ColumnsOf(kws) : CellRaises(kws, nt, ColumnsOf(kws)[c])

ZeroNotice(c) ==
    "      0 items. NOT WRITING "
    \o (IF c.op = "prt_txt" THEN "w/format_string(" \o Concat(c.prtfmt) \o ")" ELSE str(c.fout))
    \o "\n"
Notices == SelectSeq(stdout, LAMBDA w : w.via = "sys.stdout.write")

\* The names of the tokens a format string was written from, in order.
RECURSIVE TokNames(_)
TokNames(pieces) ==
    IF pieces = <<>> THEN <<>>
    ELSE (IF pieces[1].tok THEN <<pieces[1].name>> ELSE <<>>) \o TokNames(Tail(pieces))

(***************************************************************************)
(* The claims                                                              *)
(***************************************************************************)

\* C1: when prt_tsv returns, the count it returns is the number of records
\* for which prt_if is true (all of them when prt_if is absent), and that is
\* the number of lines written after the header line.
C1_CountIsSelected ==
    (call.op = "prt_tsv" /\ status = "returned")
    => /\ ret = <<NumSelected(call.data, call.kws)>>
       /\ Len(sink) = 1 + ret[1]

C1_Witness ==
    /\ call.op = "prt_tsv" /\ status = "returned" /\ Has(call.kws, "prt_if")
    /\ ret # <<>> /\ ret[1] = 1 /\ Len(call.data) = 2 /\ Len(sink) = 2

\* C2: in prt_tsv and prt_txt, the lines written after any header are, in
\* order, the lines of exactly the input records that satisfy prt_if, in
\* input order or, with sort_by, by key with equal keys kept in input order;
\* prt_if and sort_by see the full record whatever prt_flds prints.
C2_RowsSelectedInStableOrder ==
    /\ (call.op = "prt_tsv" /\ status = "returned")
       => Tail(sink) = [r \in 1..NumSelected(call.data, call.kws) |->
                           TsvLine(call.kws, SelectedInOrder(call.data, call.kws)[r])]
    /\ (call.op = "prt_txt" /\ status = "returned")
       => sink = [r \in 1..NumSelected(call.data, call.kws) |->
                     FormatText(call.prtfmt, SelectedInOrder(call.data, call.kws)[r]).val]

C2_Witness ==
    /\ call.op = "prt_tsv" /\ status = "returned"
    /\ Has(call.kws, "sort_by") /\ call.kws.sort_by = "score"
    /\ Has(call.kws, "prt_flds") /\ call.kws.prt_flds = <<"name">>
    /\ Len(call.data) = 2 /\ Len(sink) = 3 /\ sink[2] # sink[3]
    /\ call.data[1].score = call.data[2].score

\* C3: on an empty list, prt_txt, wr_tsv and wr_xlsx return after writing
\* one "0 items" line to sys.stdout and nothing else: nothing reaches prt, no
\* file is opened, no Workbook is made.
C3_EmptyWritesOneNotice ==
    (call.op \in Renderers /\ call.data = <<>>)
    => /\ status = "returned"
       /\ stdout = <<[via |-> "sys.stdout.write", text |-> ZeroNotice(call)]>>
       /\ sink = <<>>
       /\ file = NoFile
       /\ book = NoBook

C3_Witness ==
    /\ call.op = "prt_txt" /\ call.data = <<>> /\ call.nt_fields # <<>>
    /\ Len(stdout) = 1 /\ sink = <<>>

\* C4: a prt_txt call (here: on a non-empty list, where the check is made)
\* with nt_fields given and a format string with a token whose field is not
\* in nt_fields raises the check's Exception, with nothing written to prt.
C4_MismatchRaisesBeforeOutput ==
    (/\ call.op = "prt_txt" /\ call.data # <<>> /\ call.nt_fields # <<>>
     /\ \E k \in DOMAIN TokNames(call.pieces) :
           \A j \in DOMAIN call.nt_fields[1] : call.nt_fields[1][j] # TokNames(call.pieces)[k])
    => (status = "raised" /\ exc = "Exception" /\ sink = <<>>)

\* C5: wr_tsv with a path and wr_xlsx leave no handle open: on every exit,
\* by return or by an error raised while the rows are written, the file
\* that was opened is closed and the Workbook that was made is closed.
C5_HandleClosedOnEveryExit ==
    (status # "idle" /\ call.op \in {"wr_tsv", "wr_xlsx"})
    => /\ file.opened => file.closed
       /\ book.created => book.closed

\* C6, as claimed: every call of prt_txt, wr_tsv or wr_xlsx that returns has
\* written a status notice to sys.stdout.
C6_NoticeOnEveryReturn ==
    (call.op \in Renderers /\ status = "returned") => Notices # <<>>

\* C6, amended: a call that returns has written the zero-items notice when
\* the list is empty; on a non-empty list wr_xlsx, and wr_tsv with a path,
\* have written one notice with the count of rows written and the path,
\* while prt_txt, and wr_tsv without a path, have written no notice.
C6_NoticeWhenEmptyOrToPath ==
    (call.op \in Renderers /\ status = "returned")
    => Notices =
         IF call.data = <<>>
         THEN <<[via |-> "sys.stdout.write", text |-> ZeroNotice(call)]>>
         ELSE IF call.op = "wr_xlsx" \/ (call.op = "wr_tsv" /\ call.fout # PyNone)
         THEN <<[via |-> "sys.stdout.write",
                 text |-> "  " \o rjust(ToString(NumSelected(call.data, call.kws)), 5)
                          \o " items WROTE: " \o call.fout.s \o "\n"]>>
         ELSE <<>>

C6_Witness ==
    /\ call.op = "wr_tsv" /\ status = "returned" /\ call.fout # PyNone
    /\ call.data # <<>> /\ Len(stdout) = 1 /\ file.closed

\* C7: get_fmtflds returns the bare names of the tokens of the format string,
\* one per token, in order, duplicates kept and format specs removed, also
\* when tokens are adjacent or separated by non-whitespace only.
C7_FieldNamesInOrder ==
    call.op = "get_fmtflds" => fmtflds = TokNames(call.pieces)

\* C8: in wr_xlsx on a non-empty list the headers are written at row 0, or
\* at row 1 under a title at row 0; when the call returns, the records that
\* satisfy prt_if fill, in sorted order, the rows that follow the header row,
\* one row each with no gap and no cell written twice, and the count in the
\* notice is the number of those records.
C8_RowsConsecutiveAfterHeader ==
    (call.op = "wr_xlsx" /\ call.data # <<>>)
    => LET kws == call.kws
           hrow == IF Has(kws, "title") THEN 1 ELSE 0
           hdrs == HeadersOf(kws)
           cols == ColumnsOf(kws)
           n == NumSelected(call.data, kws)
           recs == SelectedInOrder(call.data, kws)
           hdrW == SelectSeq(book.writes, LAMBDA w : w.fmt = "fmt_hdr")
           datW == SelectSeq(book.writes, LAMBDA w : w.fmt = "fmt_txt")
       IN  /\ hdrW = [k \in DOMAIN hdrs |->
                        [row |-> hrow, col |-> k - 1, val |-> PyStr(hdrs[k]), fmt |-> "fmt_hdr"]]
           /\ Has(kws, "title") => book.merges # <<>> /\ book.merges[1].row = 0
           /\ status = "returned"
              => /\ datW = [k \in 1..(n * Len(cols)) |->
                              [row |-> hrow + 1 + ((k - 1) \div Len(cols)),
                               col |-> (k - 1) % Len(cols),
                               val |-> CellOf(kws, recs[1 + ((k - 1) \div Len(cols))],
                                              cols[1 + ((k - 1) % Len(cols))]),
                               fmt |-> "fmt_txt"]]
                 /\ Notices = <<[via |-> "sys.stdout.write",
                                 text |-> "  " \o rjust(ToString(n), 5) \o " items WROTE: "
                                          \o call.fout.s \o "\n"]>>

C8_Witness ==
    /\ call.op = "wr_xlsx" /\ status = "returned" /\ Has(call.kws, "title")
    /\ Has(call.kws, "prt_if") /\ Has(call.kws, "sort_by")
    /\ Len(call.data) = 2 /\ NumSelected(call.data, call.kws) = 1
    /\ \E k \in DOMAIN book.writes : book.writes[k].row = 2

\* C9: in a wr_xlsx call that returns, every printed column whose field has an entry in
\* fld2col_widths is given that width, whatever fields prt_flds prints and in
\* whatever order, and a printed column whose field has no entry is given
\* none.
C9_WidthOnFieldsColumn ==
    (call.op = "wr_xlsx" /\ status = "returned" /\ call.data # <<>>
     /\ Has(call.kws, "fld2col_widths"))
    => \A c \in DOMAIN ColumnsOf(call.kws) :
         LET fld == ColumnsOf(call.kws)[c]
             set == {k \in DOMAIN book.widths : book.widths[k].col = c - 1}
         IN  IF fld \in DOMAIN call.kws.fld2col_widths
             THEN /\ set # {}
                  /\ \A k \in set : book.widths[k].width = call.kws.fld2col_widths[fld]
             ELSE set = {}

\* C10: when prt_tsv fails at a record of the sorted list (prt_if raises, or
\* a cell of a selected record cannot be fetched or formatted), prt holds the
\* header line and then the lines of the selected records before that
\* record, in order, and nothing more; no count is returned.
C10_FailureKeepsWrittenPrefix ==
    (call.op = "prt_tsv" /\ ~SortRaises(call.data, call.kws))
    => LET all == AllInOrder(call.data, call.kws)
           bad == {r \in DOMAIN all : RowRaises(call.kws, all[r])}
           good == SelectSeq(SubSeq(all, 1, SetMin(bad) - 1), LAMBDA nt : Selects(call.kws, nt))
       IN  bad # {}
           => /\ status = "raised"
              /\ ret = <<>>
              /\ sink = <<TsvHeader(call.kws)>> \o [r \in DOMAIN good |-> TsvLine(call.kws, good[r])]

C10_Witness ==
    /\ call.op = "prt_tsv" /\ status = "raised" /\ exc = "ValueError"
    /\ Has(call.kws, "sort_by") /\ Len(call.data) = 2 /\ Len(sink) = 2
====
